---- MODULE Spec2Model ----
(***************************************************************************)
(* Model of the parallel Mandelbrot renderer (src/main.go, lines 1-176):   *)
(* main creates three buffered channels, runs workCreator synchronously,   *)
(* starts calculatorWorkerStarter and drawingWorker as goroutines and      *)
(* blocks on a WaitGroup.  Every channel operation is one step.  The       *)
(* non-concurrent variant (lines 178-236) is modelled as an operator.      *)
(***************************************************************************)
EXTENDS Integers, Sequences, FiniteSets, TLC

\* Bounds of the explored run configurations.
MaxWidth == 4
MaxHeight == 2
MaxPixels == 7
MaxRoot == 2
MaxThreads == 2
MaxIter == 6

\* Fixed-point scale standing in for the floating-point numbers of the
\* per-pixel computation: a real v is held as the integer floor(v * FracScale).
FracScale == 256

\* Region counts explored: the perfect squares s*s and the non-squares s*s+1
\* up to MaxRoot, and the invalid counts 0 and -1.
TaskCounts == {-1, 0} \cup {s * s : s \in 1 .. MaxRoot} \cup {s * s + 1 : s \in 1 .. MaxRoot}

VARIABLES
    width, height,            \* image size (package variables)
    numWorkTasks, numThreads, \* region count, worker count
    printDrawingProgress,     \* progress reporting switch
    MAX_ITER,                 \* iteration bound
    outcome,                  \* "running", "panic", "deadlock", "exit"
    mainPc,                   \* position of main
    wcI, wcJ,                 \* loop counters of workCreator
    workBuffer,               \* chan workRange
    pixelBuffer,              \* chan pixel
    freeThreads,              \* chan bool: number of buffered tokens
    starterPc, starterT, starterW, workCounter,  \* calculatorWorkerStarter
    workers,                  \* launched calculatorWorker goroutines, in launch order
    drawPc, drawP,            \* drawingWorker position and received pixel
    image,                    \* number of image.Set calls per pixel
    raster,                   \* colour held by each pixel of the image
    pixelCount,
    wg,                       \* WaitGroup counter
    fileOk, encoded, reported,\* os.Create result, png.Encode done, printed pixel count
    emitted,                  \* history: regions sent on workBuffer
    produced                  \* history: number of pixels sent on pixelBuffer

config == <<width, height, numWorkTasks, numThreads, printDrawingProgress, MAX_ITER>>
mainVars == <<mainPc, wcI, wcJ, fileOk, encoded, reported>>
starterVars == <<starterPc, starterT, starterW, workCounter>>
drawVars == <<drawPc, drawP, image, raster, pixelCount>>
vars == <<config, outcome, mainVars, workBuffer, pixelBuffer, freeThreads,
          starterVars, workers, drawVars, wg, emitted, produced>>

NoWork == [minX |-> 0, maxX |-> 0, minY |-> 0, maxY |-> 0]

\* color.RGBA{}: the colour of a pixel of image.NewRGBA before any Set
Blank == <<0, 0, 0, 0>>

NoPixel == [x |-> 0, y |-> 0, col |-> Blank]

numOfPixels == width * height

Pixels == (0 .. width - 1) \X (0 .. height - 1)

\* int(math.Sqrt(float64(n))) for n >= 0
ISqrt(n) == CHOOSE s \in 0 .. n : s * s <= n /\ n < (s + 1) * (s + 1)

r == ISqrt(numWorkTasks)

\* variant of work_width: rounds the cell width up
work_width_RoundUp == (width + r - 1) \div r

work_width == width \div r
work_height == height \div r

Init ==
    /\ width \in 1 .. MaxWidth
    /\ height \in 1 .. MaxHeight
    /\ width * height <= MaxPixels
    /\ numWorkTasks \in TaskCounts
    /\ numThreads \in -1 .. MaxThreads
    /\ printDrawingProgress \in BOOLEAN
    /\ MAX_ITER = MaxIter
    /\ outcome = "running"
    /\ mainPc = "make"
    /\ wcI = 0 /\ wcJ = 0
    /\ workBuffer = <<>>
    /\ pixelBuffer = <<>>
    /\ freeThreads = 0
    /\ starterPc = "none" /\ starterT = 0 /\ starterW = NoWork /\ workCounter = 0
    /\ workers = <<>>
    /\ drawPc = "none" /\ drawP = NoPixel
    /\ image = [p \in Pixels |-> 0]
    /\ raster = [p \in Pixels |-> Blank]
    /\ pixelCount = 0
    /\ wg = 0
    /\ fileOk = FALSE /\ encoded = FALSE /\ reported = -1
    /\ emitted = <<>>
    /\ produced = 0

----------------------------------------------------------------------------
\* main, lines 145-147: make(chan, n) panics for a negative size
MainMake ==
    /\ outcome = "running" /\ mainPc = "make"
    /\ numThreads >= 0 /\ numOfPixels >= 0 /\ numWorkTasks >= 0
    /\ mainPc' = "workCreator"
    /\ UNCHANGED <<config, outcome, wcI, wcJ, fileOk, encoded, reported, workBuffer,
                   pixelBuffer, freeThreads, starterVars, workers, drawVars, wg,
                   emitted, produced>>

MainMakePanic ==
    /\ outcome = "running" /\ mainPc = "make"
    /\ (numThreads < 0 \/ numOfPixels < 0 \/ numWorkTasks < 0)
    /\ outcome' = "panic"
    /\ UNCHANGED <<config, mainVars, workBuffer, pixelBuffer, freeThreads,
                   starterVars, workers, drawVars, wg, emitted, produced>>

\* workCreator, lines 97-99: width / r panics when r is 0
WorkCreatorEnter ==
    /\ outcome = "running" /\ mainPc = "workCreator"
    /\ r # 0
    /\ mainPc' = "workLoop" /\ wcI' = 0 /\ wcJ' = 0
    /\ UNCHANGED <<config, outcome, fileOk, encoded, reported, workBuffer,
                   pixelBuffer, freeThreads, starterVars, workers, drawVars, wg,
                   emitted, produced>>

WorkCreatorPanic ==
    /\ outcome = "running" /\ mainPc = "workCreator"
    /\ r = 0
    /\ outcome' = "panic"
    /\ UNCHANGED <<config, mainVars, workBuffer, pixelBuffer, freeThreads,
                   starterVars, workers, drawVars, wg, emitted, produced>>

\* variant of WorkRangeAt: each region reaches one column into the next
WorkRangeAt_Overlap(i, j) ==
    [minX |-> i * work_width, maxX |-> (i + 1) * work_width + 1,
     minY |-> j * work_height, maxY |-> (j + 1) * work_height]

\* variant of WorkRangeAt: the loop indices applied to the other axis
WorkRangeAt_Transposed(i, j) ==
    [minX |-> j * work_width, maxX |-> (j + 1) * work_width,
     minY |-> i * work_height, maxY |-> (i + 1) * work_height]

\* variant of WorkRangeAt: the region height taken from work_width
WorkRangeAt_SquareCells(i, j) ==
    [minX |-> i * work_width, maxX |-> (i + 1) * work_width,
     minY |-> j * work_width, maxY |-> (j + 1) * work_width]

\* workCreator, lines 103-104
WorkRangeAt(i, j) ==
    [minX |-> i * work_width, maxX |-> (i + 1) * work_width,
     minY |-> j * work_height, maxY |-> (j + 1) * work_height]

\* workCreator, lines 101-110: one iteration of the inner loop
WorkCreatorSend ==
    /\ outcome = "running" /\ mainPc = "workLoop"
    /\ wcI < r
    /\ Len(workBuffer) < numWorkTasks
    /\ workBuffer' = Append(workBuffer, WorkRangeAt(wcI, wcJ))
    /\ emitted' = Append(emitted, WorkRangeAt(wcI, wcJ))
    /\ IF wcJ + 1 < r
          THEN wcJ' = wcJ + 1 /\ wcI' = wcI
          ELSE wcJ' = 0 /\ wcI' = wcI + 1
    /\ UNCHANGED <<config, outcome, mainPc, fileOk, encoded, reported,
                   pixelBuffer, freeThreads, starterVars, workers, drawVars, wg,
                   produced>>

\* workCreator returns, main line 150 -> 153
WorkCreatorReturn ==
    /\ outcome = "running" /\ mainPc = "workLoop"
    /\ wcI >= r
    /\ mainPc' = "goStarter"
    /\ UNCHANGED <<config, outcome, wcI, wcJ, fileOk, encoded, reported, workBuffer,
                   pixelBuffer, freeThreads, starterVars, workers, drawVars, wg,
                   emitted, produced>>

\* main line 153: go calculatorWorkerStarter(...)
MainGoStarter ==
    /\ outcome = "running" /\ mainPc = "goStarter"
    /\ mainPc' = "goDrawing"
    /\ starterPc' = "preload" /\ starterT' = 0
    /\ UNCHANGED <<config, outcome, wcI, wcJ, fileOk, encoded, reported, workBuffer,
                   pixelBuffer, freeThreads, starterW, workCounter, workers,
                   drawVars, wg, emitted, produced>>

\* main lines 156-159: wg.Add(1); go drawingWorker(...)
MainGoDrawing ==
    /\ outcome = "running" /\ mainPc = "goDrawing"
    /\ mainPc' = "wait"
    /\ wg' = wg + 1
    /\ drawPc' = "recv"
    /\ UNCHANGED <<config, outcome, wcI, wcJ, fileOk, encoded, reported, workBuffer,
                   pixelBuffer, freeThreads, starterVars, workers, drawP, image,
                   raster, pixelCount, emitted, produced>>

\* variant of WaitReturns: main does not wait for the counter
WaitReturns_NoWait(counter) == TRUE

\* wg.Wait() returns when the counter is zero
WaitReturns(counter) == counter = 0

\* main line 162
MainWait ==
    /\ outcome = "running" /\ mainPc = "wait"
    /\ WaitReturns(wg)
    /\ mainPc' = "print"
    /\ UNCHANGED <<config, outcome, wcI, wcJ, fileOk, encoded, reported, workBuffer,
                   pixelBuffer, freeThreads, starterVars, workers, drawVars, wg,
                   emitted, produced>>

\* main line 163: reads pixelCount
MainPrint ==
    /\ outcome = "running" /\ mainPc = "print"
    /\ reported' = pixelCount
    /\ mainPc' = "create"
    /\ UNCHANGED <<config, outcome, wcI, wcJ, fileOk, encoded, workBuffer,
                   pixelBuffer, freeThreads, starterVars, workers, drawVars, wg,
                   emitted, produced>>

\* variant of AfterCreate: the encode step follows whatever os.Create returned
AfterCreate_AlwaysEncode(ok) == "encode"

\* main lines 168-172: if err != nil { report } else { encode }
AfterCreate(ok) == IF ok THEN "encode" ELSE "return"

\* main lines 166-171: os.Create succeeds or fails
MainCreate ==
    /\ outcome = "running" /\ mainPc = "create"
    /\ \E ok \in BOOLEAN :
          /\ fileOk' = ok
          /\ mainPc' = AfterCreate(ok)
    /\ UNCHANGED <<config, outcome, wcI, wcJ, encoded, reported, workBuffer,
                   pixelBuffer, freeThreads, starterVars, workers, drawVars, wg,
                   emitted, produced>>

\* main lines 172-174: png.Encode(f, image)
MainEncode ==
    /\ outcome = "running" /\ mainPc = "encode"
    /\ encoded' = TRUE
    /\ mainPc' = "return"
    /\ UNCHANGED <<config, outcome, wcI, wcJ, fileOk, reported, workBuffer,
                   pixelBuffer, freeThreads, starterVars, workers, drawVars, wg,
                   emitted, produced>>

\* main returns (line 176): the process exits, all goroutines stop
MainReturn ==
    /\ outcome = "running" /\ mainPc = "return"
    /\ outcome' = "exit"
    /\ UNCHANGED <<config, mainVars, workBuffer, pixelBuffer, freeThreads,
                   starterVars, workers, drawVars, wg, emitted, produced>>

----------------------------------------------------------------------------
\* calculatorWorkerStarter, lines 115-117: freeThreads <- true
StarterPreload ==
    /\ outcome = "running" /\ starterPc = "preload"
    /\ starterT < numThreads
    /\ freeThreads < numThreads
    /\ freeThreads' = freeThreads + 1
    /\ starterT' = starterT + 1
    /\ UNCHANGED <<config, outcome, mainVars, workBuffer, pixelBuffer, starterPc,
                   starterW, workCounter, workers, drawVars, wg, emitted, produced>>

\* line 118: workCounter := numWorkTasks
StarterPreloadDone ==
    /\ outcome = "running" /\ starterPc = "preload"
    /\ starterT >= numThreads
    /\ workCounter' = numWorkTasks
    /\ starterPc' = "range"
    /\ UNCHANGED <<config, outcome, mainVars, workBuffer, pixelBuffer, freeThreads,
                   starterT, starterW, workers, drawVars, wg, emitted, produced>>

\* variant of ChanRecv: yields the newest buffered element
ChanRecv_Newest(buf) == buf[Len(buf)]

\* the value a receive on a channel yields: the oldest buffered element
ChanRecv(buf) == Head(buf)

\* line 119: w := <-workBuffer (blocks while the channel is empty; never closed)
StarterRecv ==
    /\ outcome = "running" /\ starterPc = "range"
    /\ Len(workBuffer) > 0
    /\ starterW' = ChanRecv(workBuffer)
    /\ workBuffer' = Tail(workBuffer)
    /\ starterPc' = "token"
    /\ UNCHANGED <<config, outcome, mainVars, pixelBuffer, freeThreads, starterT,
                   workCounter, workers, drawVars, wg, emitted, produced>>

\* variant of TakeToken: the token stays in the pool
TakeToken_Keep(n) == n

\* line 120: <-freeThreads removes one token
TakeToken(n) == n - 1

\* variant of WorkerStart: the outer loop starts one column late
WorkerStart_SkipColumn(work) ==
    [work |-> work, x |-> work.minX + 1, y |-> work.minY,
     pc |-> IF work.minX < work.maxX /\ work.minY < work.maxY
               THEN "loop" ELSE "token",
     sent |-> <<>>]

\* calculatorWorker, lines 69-70: the loop position a worker starts at;
\* sent records the coordinates the worker has put on pixelBuffer
WorkerStart(work) ==
    [work |-> work, x |-> work.minX, y |-> work.minY,
     pc |-> IF work.minX < work.maxX /\ work.minY < work.maxY
               THEN "loop" ELSE "token",
     sent |-> <<>>]

\* lines 120-128: take a token, start the goroutine, count down
StarterLaunch ==
    /\ outcome = "running" /\ starterPc = "token"
    /\ freeThreads > 0
    /\ freeThreads' = TakeToken(freeThreads)
    /\ workers' = Append(workers, WorkerStart(starterW))
    /\ workCounter' = workCounter - 1
    /\ starterPc' = IF workCounter - 1 = 0 THEN "returned" ELSE "range"
    /\ UNCHANGED <<config, outcome, mainVars, workBuffer, pixelBuffer, starterT,
                   starterW, drawVars, wg, emitted, produced>>

----------------------------------------------------------------------------
\* variant of WorkerAdvance: the inner loop runs to maxY inclusive
WorkerAdvance_Inclusive(w) ==
    IF w.y + 1 <= w.work.maxY
       THEN [w EXCEPT !.y = w.y + 1]
       ELSE IF w.x + 1 < w.work.maxX
               THEN [w EXCEPT !.x = w.x + 1, !.y = w.work.minY]
               ELSE [w EXCEPT !.x = w.x + 1, !.y = w.work.minY, !.pc = "token"]

\* calculatorWorker, lines 69-70: loop position after the pixel (x, y)
WorkerAdvance(w) ==
    IF w.y + 1 < w.work.maxY
       THEN [w EXCEPT !.y = w.y + 1]
       ELSE IF w.x + 1 < w.work.maxX
               THEN [w EXCEPT !.x = w.x + 1, !.y = w.work.minY]
               ELSE [w EXCEPT !.x = w.x + 1, !.y = w.work.minY, !.pc = "token"]

\* Plane bounds and escape bound, lines 41-45, in fixed point
RE_START == -2 * FracScale
RE_END == 1 * FracScale
IM_START == -1 * FracScale
IM_END == 1 * FracScale
bound == 2 * FracScale

Abs(v) == IF v < 0 THEN -v ELSE v

\* mandelbrotCalc, lines 59-67: the loop from state (re, im, n) on;
\* z*z + c is (re*re - im*im + cre, re*im + im*re + cim)
RECURSIVE MandelbrotLoop(_, _, _, _, _)
MandelbrotLoop(cre, cim, re, im, n) ==
    IF Abs(re) <= bound /\ n < MAX_ITER
       THEN MandelbrotLoop(cre, cim,
                           (re * re - im * im) \div FracScale + cre,
                           (re * im + im * re) \div FracScale + cim,
                           n + 1)
       ELSE n

mandelbrotCalc(cre, cim) == MandelbrotLoop(cre, cim, 0, 0, 0)

\* calculatorWorker, lines 71-75: the colour of pixel (x, y)
Colour(x, y) ==
    LET cre == RE_START + (((x * FracScale) \div width) * (RE_END - RE_START)) \div FracScale
        cim == IM_START + (((y * FracScale) \div height) * (IM_END - IM_START)) \div FracScale
        val == 255 - (mandelbrotCalc(cre, cim) * 255) \div MAX_ITER
    IN  <<val % 256, val % 256, val % 256, 254>>

\* variant of PixelOf: the colour is computed once, for the region's first pixel
PixelOf_RegionColour(w) ==
    [x |-> w.x, y |-> w.y, col |-> Colour(w.work.minX, w.work.minY)]

\* calculatorWorker, lines 71-76: pixel{x, y, col}
PixelOf(w) == [x |-> w.x, y |-> w.y, col |-> Colour(w.x, w.y)]

\* variant of PixelCap: the buffer is one slot short
PixelCap_OneShort == numOfPixels - 1

\* main line 146: make(chan pixel, numOfPixels)
PixelCap == numOfPixels

\* calculatorWorker, line 76: pixelBuffer <- pixel{x, y, col}
WorkerSend(k) ==
    /\ outcome = "running"
    /\ workers[k].pc = "loop"
    /\ Len(pixelBuffer) < PixelCap
    /\ pixelBuffer' = Append(pixelBuffer, PixelOf(workers[k]))
    /\ produced' = produced + 1
    /\ workers' = [workers EXCEPT ![k] =
                      [WorkerAdvance(workers[k]) EXCEPT
                          !.sent = Append(@, <<workers[k].x, workers[k].y>>)]]
    /\ UNCHANGED <<config, outcome, mainVars, workBuffer, freeThreads, starterVars,
                   drawVars, wg, emitted>>

\* variant of ReturnToken: the worker puts two tokens into the pool
ReturnToken_Twice(n) == n + 2

\* line 79: freeThreads <- true adds one token
ReturnToken(n) == n + 1

\* calculatorWorker, line 79: freeThreads <- true
WorkerToken(k) ==
    /\ outcome = "running"
    /\ workers[k].pc = "token"
    /\ freeThreads < numThreads
    /\ freeThreads' = ReturnToken(freeThreads)
    /\ workers' = [workers EXCEPT ![k].pc = "done"]
    /\ UNCHANGED <<config, outcome, mainVars, workBuffer, pixelBuffer, starterVars,
                   drawVars, wg, emitted, produced>>

\* some launched worker sends its next pixel / returns its token
WorkerSendStep == \E k \in DOMAIN workers : WorkerSend(k)

WorkerTokenStep == \E k \in DOMAIN workers : WorkerToken(k)

----------------------------------------------------------------------------
\* drawingWorker, line 82: p := <-pixelBuffer
DrawRecv ==
    /\ outcome = "running" /\ drawPc = "recv"
    /\ Len(pixelBuffer) > 0
    /\ drawP' = Head(pixelBuffer)
    /\ pixelBuffer' = Tail(pixelBuffer)
    /\ drawPc' = "set"
    /\ UNCHANGED <<config, outcome, mainVars, workBuffer, freeThreads, starterVars,
                   workers, image, raster, pixelCount, wg, emitted, produced>>

\* image.Set ignores a point outside the image rectangle
ImageSet(img, p) ==
    IF <<p.x, p.y>> \in DOMAIN img
       THEN [img EXCEPT ![<<p.x, p.y>>] = @ + 1]
       ELSE img

\* image.Set stores the colour at (p.x, p.y), ignoring a point outside the image
RasterSet(img, p) ==
    IF <<p.x, p.y>> \in DOMAIN img
       THEN [img EXCEPT ![<<p.x, p.y>>] = p.col]
       ELSE img

\* drawingWorker, lines 83-84
DrawSet ==
    /\ outcome = "running" /\ drawPc = "set"
    /\ image' = ImageSet(image, drawP)
    /\ raster' = RasterSet(raster, drawP)
    /\ pixelCount' = pixelCount + 1
    /\ drawPc' = "check"
    /\ UNCHANGED <<config, outcome, mainVars, workBuffer, pixelBuffer, freeThreads,
                   starterVars, workers, drawP, wg, emitted, produced>>

\* line 85: the modulo panics when numOfPixels/10 is 0
ProgressPanics == printDrawingProgress /\ numOfPixels \div 10 = 0

\* variant of DrawComplete: stops after the first pixel
DrawComplete_FirstPixel(count) == count >= 1

\* variant of DrawComplete: stops one pixel early
DrawComplete_OneEarly(count) == count = numOfPixels - 1

\* line 88: *pixelCount == numOfPixels
DrawComplete(count) == count = numOfPixels

\* drawingWorker, lines 85-90
DrawCheck ==
    /\ outcome = "running" /\ drawPc = "check"
    /\ ~ProgressPanics
    /\ drawPc' = IF DrawComplete(pixelCount) THEN "finish" ELSE "recv"
    /\ UNCHANGED <<config, outcome, mainVars, workBuffer, pixelBuffer, freeThreads,
                   starterVars, workers, drawP, image, raster, pixelCount, wg,
                   emitted, produced>>

DrawCheckPanic ==
    /\ outcome = "running" /\ drawPc = "check"
    /\ ProgressPanics
    /\ outcome' = "panic"
    /\ UNCHANGED <<config, mainVars, workBuffer, pixelBuffer, freeThreads,
                   starterVars, workers, drawVars, wg, emitted, produced>>

\* drawingWorker, lines 92-93: wg.Done()
DrawFinish ==
    /\ outcome = "running" /\ drawPc = "finish"
    /\ wg' = wg - 1
    /\ drawPc' = "done"
    /\ UNCHANGED <<config, outcome, mainVars, workBuffer, pixelBuffer, freeThreads,
                   starterVars, workers, drawP, image, raster, pixelCount, emitted,
                   produced>>

----------------------------------------------------------------------------
\* Every goroutine is blocked on a channel or on the WaitGroup, or has returned.
StarterAsleep ==
    \/ starterPc = "returned"
    \/ starterPc = "range" /\ Len(workBuffer) = 0
    \/ starterPc = "token" /\ freeThreads = 0

AllAsleep ==
    /\ mainPc = "wait" /\ wg > 0
    /\ StarterAsleep
    /\ \A k \in DOMAIN workers : workers[k].pc = "done"
    /\ drawPc = "recv" /\ Len(pixelBuffer) = 0

\* the Go runtime ends the process: "all goroutines are asleep - deadlock!"
GoDeadlock ==
    /\ outcome = "running"
    /\ AllAsleep
    /\ outcome' = "deadlock"
    /\ UNCHANGED <<config, mainVars, workBuffer, pixelBuffer, freeThreads,
                   starterVars, workers, drawVars, wg, emitted, produced>>

----------------------------------------------------------------------------
\* The non-concurrent variant, lines 178-236, run with the same width, height,
\* iteration bound and plane bounds.

\* mandelbrotCalc of the variant, lines 193-201: the escape bound is the literal 2
RECURSIVE RefMandelbrotLoop(_, _, _, _, _)
RefMandelbrotLoop(cre, cim, re, im, n) ==
    IF Abs(re) <= 2 * FracScale /\ n < MAX_ITER
       THEN RefMandelbrotLoop(cre, cim,
                              (re * re - im * im) \div FracScale + cre,
                              (re * im + im * re) \div FracScale + cim,
                              n + 1)
       ELSE n

\* lines 212-224: the plane bounds are locals of main
RefColour(x, y) ==
    LET reStart == -2 * FracScale
        reEnd == 1 * FracScale
        imStart == -1 * FracScale
        imEnd == 1 * FracScale
        cre == reStart + (((x * FracScale) \div width) * (reEnd - reStart)) \div FracScale
        cim == imStart + (((y * FracScale) \div height) * (imEnd - imStart)) \div FracScale
        val == 255 - (RefMandelbrotLoop(cre, cim, 0, 0, 0) * 255) \div MAX_ITER
    IN  <<val % 256, val % 256, val % 256, 254>>

\* lines 218-228: for x { for y { img.Set(x, y, col) } }, from (x, y) on
RECURSIVE RefLoop(_, _, _)
RefLoop(img, x, y) ==
    IF x >= width THEN img
    ELSE IF y >= height THEN RefLoop(img, x + 1, 0)
    ELSE RefLoop(RasterSet(img, [x |-> x, y |-> y, col |-> RefColour(x, y)]), x, y + 1)

\* the raster the variant hands to png.Encode
RefImage == RefLoop([p \in Pixels |-> Blank], 0, 0)

----------------------------------------------------------------------------
Next ==
    \/ MainMake \/ MainMakePanic
    \/ WorkCreatorEnter \/ WorkCreatorPanic \/ WorkCreatorSend \/ WorkCreatorReturn
    \/ MainGoStarter \/ MainGoDrawing \/ MainWait \/ MainPrint
    \/ MainCreate \/ MainEncode \/ MainReturn
    \/ StarterPreload \/ StarterPreloadDone \/ StarterRecv \/ StarterLaunch
    \/ WorkerSendStep \/ WorkerTokenStep
    \/ DrawRecv \/ DrawSet \/ DrawCheck \/ DrawCheckPanic \/ DrawFinish
    \/ GoDeadlock

Spec == Init /\ [][Next]_vars

----------------------------------------------------------------------------
\* Properties

ValidConfig == width >= 1 /\ height >= 1 /\ numWorkTasks >= 1 /\ numThreads >= 1

\* workers launched that have not yet returned their token
Active == Cardinality({k \in DOMAIN workers : workers[k].pc # "done"})

\* workCreator has just returned: every region of the run has been emitted
PartitionDone == mainPc = "goStarter"

MainPastWait == mainPc \in {"print", "create", "encode", "return"}

InRegion(w, x, y) == w.minX <= x /\ x < w.maxX /\ w.minY <= y /\ y < w.maxY

\* indices of the emitted regions that contain the pixel (x, y)
Covering(x, y) == {k \in DOMAIN emitted : InRegion(emitted[k], x, y)}

\* C1: for workerCount >= 1, the number of launched workers that have not yet
\* returned their token never exceeds numThreads.
C1_BoundedWorkers == numThreads >= 1 => Active <= numThreads

\* numThreads = 2 workers are running and the dispatcher holds the next region,
\* waiting for a token
C1_Witness ==
    /\ numThreads = 2 /\ Active = 2 /\ freeThreads = 0
    /\ starterPc = "token"
    /\ \E k \in DOMAIN workers : workers[k].pc = "loop"

\* C2: for every configuration with width, height, regionCount, workerCount >= 1
\* the run never ends in a state where all goroutines are blocked.
C2_RunsToCompletion == ValidConfig => outcome # "deadlock"

\* C3: completion is signalled only with pixelCount = width*height, and
\* pixelCount always lies in 0 .. width*height.
C3_CompletionCount ==
    /\ pixelCount >= 0 /\ pixelCount <= numOfPixels
    /\ drawPc \in {"finish", "done"} => pixelCount = numOfPixels
    /\ (drawPc # "none" /\ wg = 0) => pixelCount = numOfPixels

\* completion signalled after the pixels of 4 regions were drawn
C3_Witness ==
    /\ drawPc = "done" /\ wg = 0 /\ pixelCount = numOfPixels
    /\ Len(workers) = 4 /\ numThreads = 2 /\ numOfPixels >= 4

\* C4: when completion is signalled every pixel has been written exactly once
\* and exactly width*height results were produced; no pixel is ever written
\* twice, never more than width*height results are produced, and the pixel
\* received last is already written when the completion check runs.
C4_EveryPixelOnce ==
    /\ produced <= numOfPixels
    /\ \A p \in Pixels : image[p] <= 1
    /\ drawPc = "check" => /\ <<drawP.x, drawP.y>> \in Pixels
                           /\ image[<<drawP.x, drawP.y>>] = 1
    /\ drawPc \in {"finish", "done"} =>
          /\ \A p \in Pixels : image[p] = 1
          /\ produced = numOfPixels

\* the completion check runs on the last pixel of a 4-region image
C4_Witness ==
    /\ drawPc = "finish" /\ Len(workers) = 4 /\ numThreads = 2
    /\ produced = numOfPixels /\ numOfPixels >= 4
    /\ \A p \in Pixels : image[p] = 1

\* C5 (as stated): for width, height, regionCount >= 1 every pixel of the image
\* lies in exactly one emitted region.
C5_ExactTiling ==
    (numWorkTasks >= 1 /\ PartitionDone) =>
        \A p \in Pixels : Cardinality(Covering(p[1], p[2])) = 1

\* C5 (amended): when r = floor(sqrt(regionCount)) divides both width and
\* height, every pixel of the image lies in exactly one emitted region.
C5_ExactTilingWhenDivisible ==
    (numWorkTasks >= 1 /\ PartitionDone /\ width % r = 0 /\ height % r = 0) =>
        \A p \in Pixels : Cardinality(Covering(p[1], p[2])) = 1

\* a 2 x 2 grid of regions over an image both of whose sides are even
C5_Witness ==
    /\ numWorkTasks >= 1 /\ PartitionDone
    /\ r = 2 /\ width % 2 = 0 /\ height % 2 = 0
    /\ Len(emitted) = 4

\* C6: the regions of the launched workers are, in launch order, a prefix of
\* the emitted regions, and every emitted region is in exactly one place:
\* launched, held by the dispatcher, or still buffered.
C6_FifoDispatch ==
    /\ Len(workers) <= Len(emitted)
    /\ \A k \in DOMAIN workers : workers[k].work = emitted[k]
    /\ emitted = [k \in DOMAIN workers |-> workers[k].work]
                 \o (IF starterPc = "token" THEN <<starterW>> ELSE <<>>)
                 \o workBuffer

\* the second worker has finished before the first, and a third was launched
C6_Witness ==
    /\ Len(workers) >= 3
    /\ workers[1].pc = "loop" /\ workers[2].pc = "done"
    /\ workers[1].work # workers[2].work /\ workers[2].work # workers[3].work

\* C7: every step that takes main past wg.Wait(), or is taken after it, finds
\* the aggregator finished, and the raster and pixelCount change only in the
\* aggregator's write step while main has not passed wg.Wait().
C7_RasterHandoff ==
    [][/\ MainPastWait' => (drawPc = "done" /\ drawPc' = "done")
       /\ (image' # image \/ pixelCount' # pixelCount)
             => (drawPc = "set" /\ mainPc = "wait")]_vars

\* main encodes a raster that two or more workers filled
C7_Witness ==
    /\ mainPc = "encode" /\ Len(workers) >= 2
    /\ \A p \in Pixels : image[p] = 1

\* C8: with regionCount < 1 or workerCount < 1 no region is emitted, no worker
\* is launched and the aggregator receives nothing.
C8_InvalidConfigRejected ==
    (numWorkTasks < 1 \/ numThreads < 1) =>
        (emitted = <<>> /\ workers = <<>> /\ pixelCount = 0)

\* C9: a 2 x 2 image with one region and one worker never fails in the
\* aggregator, under either setting of progress reporting.
C9_SmallImageCompletes ==
    (width = 2 /\ height = 2 /\ numWorkTasks = 1 /\ numThreads = 1) =>
        outcome # "panic"

\* C10: when r does not divide width or height, the emitted regions are r*r
\* in number, every pixel of [0, r*(width div r)) x [0, r*(height div r)) lies
\* in exactly one of them, and every other point lies in none.
C10_TruncatedTiling ==
    (numWorkTasks >= 1 /\ PartitionDone /\ (width % r # 0 \/ height % r # 0)) =>
        /\ Len(emitted) = r * r
        /\ \A x \in -1 .. width + 1, y \in -1 .. height + 1 :
              Cardinality(Covering(x, y)) =
                 IF /\ 0 <= x /\ x < r * (width \div r)
                    /\ 0 <= y /\ y < r * (height \div r)
                    THEN 1 ELSE 0

\* a non-empty truncated tiling: the last column of the image is uncovered
C10_Witness ==
    /\ numWorkTasks >= 1 /\ PartitionDone
    /\ r = 2 /\ width % 2 # 0 /\ width \div 2 >= 1 /\ height \div 2 >= 1
    /\ Covering(width - 1, 0) = {}
    /\ Covering(0, 0) = {1}

\* the cell of the r x r grid at horizontal index gx and vertical index gy
GridCell(gx, gy) ==
    [minX |-> gx * (width \div r), maxX |-> (gx + 1) * (width \div r),
     minY |-> gy * (height \div r), maxY |-> (gy + 1) * (height \div r)]

\* C11 (as stated): r*r regions are emitted and the k-th (from 0) is the cell
\* in grid row k div r and grid column k mod r (increasing minX at fixed minY).
C11_RowMajorOrder ==
    (numWorkTasks >= 1 /\ PartitionDone) =>
        /\ Len(emitted) = r * r
        /\ \A k \in 0 .. Len(emitted) - 1 : emitted[k + 1] = GridCell(k % r, k \div r)

\* C11 (amended): r*r regions of size (width div r) x (height div r) are
\* emitted and the k-th (from 0) is the cell with horizontal index k div r and
\* vertical index k mod r (increasing minY at fixed minX: column by column).
C11_ColumnMajorOrder ==
    /\ (numWorkTasks >= 1 /\ PartitionDone) => Len(emitted) = r * r
    /\ \A k \in 0 .. Len(emitted) - 1 :
          /\ emitted[k + 1] = GridCell(k \div r, k % r)
          /\ emitted[k + 1].maxX - emitted[k + 1].minX = width \div r
          /\ emitted[k + 1].maxY - emitted[k + 1].minY = height \div r

\* a 2 x 2 grid of non-empty cells: the second region lies below the first
C11_Witness ==
    /\ numWorkTasks >= 1 /\ PartitionDone /\ r = 2 /\ Len(emitted) = 4
    /\ width \div 2 >= 1 /\ height \div 2 >= 1
    /\ emitted[2].minX = emitted[1].minX /\ emitted[2].minY = emitted[1].maxY
    /\ emitted[3].minX = emitted[1].maxX /\ emitted[3].minY = emitted[1].minY

\* C12: every emitted region satisfies 0 <= minX < maxX <= width and
\* 0 <= minY < maxY <= height.
C12_RegionsNonEmpty ==
    \A k \in DOMAIN emitted :
        /\ 0 <= emitted[k].minX /\ emitted[k].minX < emitted[k].maxX
        /\ emitted[k].maxX <= width
        /\ 0 <= emitted[k].minY /\ emitted[k].minY < emitted[k].maxY
        /\ emitted[k].maxY <= height

\* C13: the encode step is reached and executed only when os.Create succeeded;
\* when it failed main goes straight to its end without encoding; and from
\* wg.Wait() on, the raster and pixelCount no longer change.
C13_EncodeOnlyAfterCreate ==
    [][/\ mainPc' = "encode" => fileOk'
       /\ encoded' => fileOk'
       /\ (mainPc = "create" /\ mainPc' # "create" /\ ~fileOk')
             => (mainPc' = "return" /\ ~encoded')
       /\ (mainPc = "return" /\ ~fileOk) => ~encoded'
       /\ MainPastWait => (image' = image /\ pixelCount' = pixelCount)]_vars

\* the process has exited after a failed file creation, nothing was encoded
C13_Witness ==
    /\ outcome = "exit" /\ mainPc = "return" /\ ~fileOk /\ ~encoded
    /\ drawPc = "done" /\ reported = numOfPixels /\ numOfPixels >= 4
    /\ \A p \in Pixels : image[p] = 1

\* the dispatcher has finished pre-loading freeThreads
PreloadDone == starterPc \in {"range", "token", "returned"}

\* C14: once the pool is pre-loaded, buffered tokens plus workers that have not
\* returned theirs equal numThreads; the pool never holds more than numThreads
\* tokens, and a worker about to return its token finds room in the pool.
C14_TokenConservation ==
    /\ PreloadDone => freeThreads + Active = numThreads
    /\ numThreads >= 0 => (0 <= freeThreads /\ freeThreads <= numThreads)
    /\ \A k \in DOMAIN workers : workers[k].pc = "token" => freeThreads < numThreads

\* one token is back in the pool, one worker still runs, a third region waits
C14_Witness ==
    /\ numThreads = 2 /\ PreloadDone /\ freeThreads = 1 /\ Active = 1
    /\ Len(workers) = 2 /\ starterPc = "token"
    /\ \E k \in DOMAIN workers : workers[k].pc = "done"

\* C15: a worker that is about to send finds fewer than width*height results
\* buffered and room in pixelBuffer, in every state (also after the aggregator
\* left its loop); when the run ends by main returning or by all goroutines
\* being asleep, every launched worker is past its last send.
C15_SendNeverBlocks ==
    /\ \A k \in DOMAIN workers :
          workers[k].pc = "loop" =>
             (Len(pixelBuffer) < width * height /\ Len(pixelBuffer) < PixelCap)
    /\ outcome \in {"exit", "deadlock"} =>
          \A k \in DOMAIN workers : workers[k].pc \in {"token", "done"}

\* the aggregator has consumed nothing, the buffer holds all results but the
\* last, and the worker is about to send that one
C15_Witness ==
    /\ numOfPixels >= 4 /\ Len(pixelBuffer) = numOfPixels - 1 /\ pixelCount = 0
    /\ \E k \in DOMAIN workers : workers[k].pc = "loop"

\* C16: for regionCount >= 1 and workerCount >= 1, once a worker has been
\* launched for every emitted region the dispatcher has returned; it is not
\* waiting for a further region on workBuffer.
C16_DispatcherReturns ==
    (ValidConfig /\ PreloadDone /\ Len(workers) = Len(emitted)) =>
        starterPc = "returned"

\* the pixels of a region
RegionPixels(w) == (w.minX .. w.maxX - 1) \X (w.minY .. w.maxY - 1)

\* the coordinates a worker has sent so far
SentSet(w) == {w.sent[i] : i \in DOMAIN w.sent}

\* C17: a worker sends only pixels of its own region, each at most once; it is
\* at or past its token return exactly when it has sent every pixel of the
\* region, so a returned token implies the whole region is on pixelBuffer.
C17_OneRegionPerWorker ==
    \A k \in DOMAIN workers :
        /\ SentSet(workers[k]) \subseteq RegionPixels(workers[k].work)
        /\ Cardinality(SentSet(workers[k])) = Len(workers[k].sent)
        /\ workers[k].pc \in {"token", "done"}
              <=> SentSet(workers[k]) = RegionPixels(workers[k].work)

\* a worker has returned its token after sending a region of two columns
C17_Witness ==
    /\ freeThreads >= 1
    /\ \E k \in DOMAIN workers :
          /\ workers[k].pc = "done"
          /\ workers[k].work.maxX - workers[k].work.minX >= 2
          /\ Len(workers[k].sent) >= 4

\* the aggregator's state: 0 WAITING (nothing received yet), 1 RECEIVING,
\* 2 COMPLETE (it has left its receive loop)
AggState ==
    IF drawPc \in {"finish", "done"} THEN 2
    ELSE IF drawPc = "none" \/ (drawPc = "recv" /\ pixelCount = 0) THEN 0
    ELSE 1

\* C18: the aggregator moves only WAITING -> RECEIVING, by receiving its first
\* pixel, and RECEIVING -> COMPLETE, with the counter at width*height; in
\* COMPLETE it receives nothing more, the counter and the raster stay as they
\* are, and completion is signalled by one step only, the one that ends it.
C18_AggregatorStates ==
    [][/\ AggState' \in {AggState, AggState + 1}
       /\ (AggState = 0 /\ AggState' = 1)
             => (drawPc = "recv" /\ drawPc' = "set" /\ drawP' = Head(pixelBuffer))
       /\ (AggState = 1 /\ AggState' = 2) => pixelCount = width * height
       /\ AggState = 2
             => /\ pixelCount' = pixelCount /\ image' = image /\ drawP' = drawP
                /\ Len(pixelBuffer') >= Len(pixelBuffer)
                /\ drawPc' \in {"finish", "done"}
       /\ wg' < wg => (drawPc = "finish" /\ drawPc' = "done" /\ wg' = 0)
       /\ drawPc = "done" => (drawPc' = "done" /\ wg' = wg)]_vars

\* completion has been signalled and main has moved on while a worker still
\* has its token to return
C18_Witness ==
    /\ drawPc = "done" /\ wg = 0 /\ mainPc = "create" /\ numOfPixels >= 4
    /\ \E k \in DOMAIN workers : workers[k].pc = "token"

\* C19: when the aggregator has left its loop, pixelBuffer is empty, every
\* emitted region has been dispatched, and every launched worker has sent all
\* its results (at most its token return is outstanding).
C19_NothingPending ==
    drawPc \in {"finish", "done"} =>
        /\ pixelBuffer = <<>>
        /\ workBuffer = <<>> /\ starterPc # "token"
        /\ Len(workers) = Len(emitted)
        /\ \A k \in DOMAIN workers : workers[k].pc \in {"token", "done"}
        /\ pixelCount = produced

\* completion after four regions, the last worker's token still outstanding
C19_Witness ==
    /\ drawPc = "done" /\ Len(workers) = 4 /\ Len(emitted) = 4
    /\ pixelBuffer = <<>> /\ produced = numOfPixels
    /\ workers[4].pc = "token"

\* C20: when the aggregator has left its loop, the raster holds at every pixel
\* the colour the non-concurrent variant computes for it, whatever the order
\* in which workers ran and results arrived.
C20_RasterMatchesReference ==
    drawPc \in {"finish", "done"} => raster = RefImage

\* four workers on two threads have filled a raster of more than one colour,
\* and the last result drawn was not the last pixel of the image
C20_Witness ==
    /\ drawPc = "done" /\ Len(workers) = 4 /\ numThreads = 2
    /\ raster = RefImage
    /\ \E p, q \in Pixels : raster[p] # raster[q]
    /\ <<drawP.x, drawP.y>> # <<width - 1, height - 1>>

====
